---- MODULE Spec2Model ----
(***************************************************************************)
(* Model of the real-estate RAG project:                                   *)
(*   real_estate_db.py  RealEstateDBManager (LanceDB table, ingestion)     *)
(*   rag_pipeline.py    RAGEngine (native search, brute-force fallback,    *)
(*                      answer generation)                                 *)
(* The LanceDB table is a sequence of rows in insertion order.  The        *)
(* embedder, the native search and the chat completion are external        *)
(* capabilities: each call draws its outcome from a small set.             *)
(***************************************************************************)
EXTENDS Integers, Sequences, FiniteSets, TLC

(* ---------------------------- bounds ---------------------------------- *)

\* listings per input file
MaxFileLen == 2
\* an ingestion run starts only if the table, with every listing of the
\* file added, would hold at most this many rows (a run that repeats the
\* run before it: only if the table holds at most this many rows)
MaxRows == 3
\* largest k passed to RAGEngine.query
MaxK == 2

(* ------------------------- input domains ------------------------------ *)

Missing == "<missing>"

Keys == {"neighborhood", "neighborhood_description", "price", "bedrooms",
         "bathrooms", "house_size", "description"}

\* Three raw listings.  RawA and RawA2 differ as records (the second carries
\* an empty neighborhood_description) and have the same canonical text.
RawA  == [k \in Keys |-> IF k = "neighborhood" THEN "N1" ELSE Missing]
RawA2 == [k \in Keys |-> IF k = "neighborhood" THEN "N1"
                         ELSE IF k = "neighborhood_description" THEN ""
                         ELSE Missing]
RawB  == [k \in Keys |-> IF k = "neighborhood" THEN "N2"
                         ELSE IF k = "neighborhood_description" THEN "parks"
                         ELSE Missing]
RawRecords == {RawA, RawA2, RawB}

\* the "listings" array of an input file
Files == UNION {[1..n -> RawRecords] : n \in 0..MaxFileLen}

\* what one call of embed_fn can do: raise, return something that is no
\* list, or return a list of floats (of the table's dimension or not)
EmbedVectors == {<<1, 0>>, <<0, 1>>, <<1>>}
EmbedOutcomes ==
  {[kind |-> "raise", value |-> <<>>], [kind |-> "notlist", value |-> <<>>]}
  \cup {[kind |-> "list", value |-> v] : v \in EmbedVectors}

\* the threads that call ingest_listings on the one manager
Runs == {1, 2}

(* --------------------- real_estate_db.py: pure parts ------------------ *)

\* dict.get(key, default)
Get(raw, key, default) == IF raw[key] = Missing THEN default ELSE raw[key]

\* the parts list of make_full_text; the conditional "Area" part is ""
\* when the description is missing or empty
Parts(raw) ==
  << "Neighborhood: " \o Get(raw, "neighborhood", ""),
     IF Get(raw, "neighborhood_description", "") # ""
       THEN "Area: " \o Get(raw, "neighborhood_description", "")
       ELSE "",
     "Price: " \o Get(raw, "price", ""),
     "Bedrooms: " \o Get(raw, "bedrooms", "") \o ", Bathrooms: "
                  \o Get(raw, "bathrooms", ""),
     "Size: " \o Get(raw, "house_size", ""),
     "Details: " \o Get(raw, "description", "") >>

RECURSIVE Join(_, _)
Join(sep, parts) ==
  IF parts = <<>> THEN ""
  ELSE IF Len(parts) = 1 THEN parts[1]
  ELSE parts[1] \o sep \o Join(sep, Tail(parts))

NonEmpty(p) == p # ""

make_full_text(raw) == Join(". ", SelectSeq(Parts(raw), NonEmpty))

\* md5 hex digest of the text: a function of the text alone, taken to be
\* collision free on the texts of the model
compute_listing_id(full_text) == <<"md5", full_text>>

\* existing_ids of ingest_listings: the ids of the rows read from the table.
\* (The except branch, which leaves the set empty, runs only when reading
\* the table raises; the table modelled here can always be read.)
\* (variant: the snapshot is always empty)
ExistingIdsEmpty(rws) == {}
ExistingIds(rws) == {rws[i].id : i \in 1..Len(rws)}

\* the isinstance check on what embed_fn returned
IsListOrTuple(emb) == emb.kind = "list"

\* The for loop of ingest_listings from record i on, docs being the list
\* built so far: the set of ways the loop can end, over everything the
\* embed_fn calls can do.  status is "raised" when embed_fn raised or the
\* isinstance check raised ValueError; failed records that some embed_fn
\* call did not deliver a list.
\* (variant LoopSwallow: a failed record is dropped and the loop goes on)
RECURSIVE LoopSwallow(_, _, _, _, _)
LoopSwallow(listings, exist, i, dcs, failed) ==
  IF i > Len(listings)
    THEN {[status |-> "ok", docs |-> dcs, failed |-> failed]}
  ELSE LET full_text  == make_full_text(listings[i])
           listing_id == compute_listing_id(full_text)
       IN IF listing_id \in exist
            THEN LoopSwallow(listings, exist, i + 1, dcs, failed)
          ELSE UNION {
            IF emb.kind = "raise" \/ ~IsListOrTuple(emb)
              THEN LoopSwallow(listings, exist, i + 1, dcs, TRUE)
            ELSE LoopSwallow(listings, exist, i + 1,
                   Append(dcs, [id |-> listing_id, embedding |-> emb.value]),
                   failed)
            : emb \in EmbedOutcomes}

RECURSIVE BuildDocs(_, _, _, _, _)
BuildDocs(listings, exist, i, dcs, failed) ==
  IF i > Len(listings)
    THEN {[status |-> "ok", docs |-> dcs, failed |-> failed]}
  ELSE LET full_text  == make_full_text(listings[i])
           listing_id == compute_listing_id(full_text)
       IN IF listing_id \in exist
            THEN BuildDocs(listings, exist, i + 1, dcs, failed)
          ELSE UNION {
            IF emb.kind = "raise" \/ ~IsListOrTuple(emb)
              THEN {[status |-> "raised", docs |-> dcs, failed |-> TRUE]}
            ELSE BuildDocs(listings, exist, i + 1,
                   Append(dcs, [id |-> listing_id, embedding |-> emb.value]),
                   failed)
            : emb \in EmbedOutcomes}

\* table.add(docs): LanceDB appends the batch to the table
TableAdd(rws, docs) == rws \o docs

(* ----------------------- rag_pipeline.py: pure parts ------------------ *)

\* the vectors embed_fn(user_query) can return in query (it can also raise)
QueryVectors == {<<1, 0>>, <<1, 1>>, <<0, 0>>}

Min(a, b) == IF a < b THEN a ELSE b

RECURSIVE Dot(_, _)
Dot(a, b) == IF a = <<>> THEN 0 ELSE a[1] * b[1] + Dot(Tail(a), Tail(b))

\* Cosine similarity of a row embedding and the query vector, held exactly:
\* the signed square of the dot product over the squared norm of the row
\* (the factor of the query norm is the same for every row and is left out).
\* The 1e-12 added to a norm only matters for a zero norm, where it makes
\* the quotient 0.
Cosine(emb, qv) ==
  LET d  == Dot(emb, qv)
      n2 == Dot(emb, emb)
  IN [kind |-> "sim",
      num |-> IF d < 0 THEN 0 - d * d ELSE d * d,
      den |-> IF n2 = 0 THEN 1 ELSE n2]

SimLess(s, t) == s.num * t.den < t.num * s.den
SimEq(s, t)   == s.num * t.den = t.num * s.den

\* _cosine_similarity_matrix: one similarity per row, in table order
RECURSIVE _cosine_similarity_matrix(_, _)
_cosine_similarity_matrix(embs, qv) ==
  IF embs = <<>> THEN <<>>
  ELSE <<Cosine(Head(embs), qv)>> \o _cosine_similarity_matrix(Tail(embs), qv)

\* the most rows the table of the one-caller specification can hold
MaxTable == MaxRows

SeqsNoDup(n, len) ==
  {s \in [1..len -> 1..n] : \A i, j \in 1..len : i # j => s[i] # s[j]}
\* every sequence of distinct row positions
RowSeqs == UNION {SeqsNoDup(MaxTable, len) : len \in 0..MaxTable}
Perms(n) ==
  {p \in RowSeqs : Len(p) = n /\ \A i \in 1..Len(p) : p[i] <= n}

\* np.argsort(-sims), default kind (quicksort, not stable): an index order
\* in which the similarities never increase; the order among equal
\* similarities is whatever the sort leaves
ArgsortDesc(sims) ==
  {p \in Perms(Len(sims)) : \A i, j \in 1..Len(sims) : i < j =>
     ~SimLess(sims[p[i]], sims[p[j]])}

\* order[:k]  (variant TopUnsliced: the whole order)
TopUnsliced(order, k) == order
Top(order, k) == SubSeq(order, 1, Min(k, Len(order)))

\* What search_with_lancedb(qv, limit=k) can return: None (the search raised,
\* as it does when self.table is None), or a DataFrame of at most k distinct
\* rows of the table in the order LanceDB ranks them, with or without a
\* "score" column.
Unavailable == [avail |-> FALSE, idx |-> <<>>, scored |-> FALSE]
Ranked(n, k) ==
  {s \in RowSeqs : Len(s) <= Min(k, n) /\ \A i \in 1..Len(s) : s[i] <= n}
search_with_lancedb(tbl, rws, k) ==
  {Unavailable} \cup
  (IF tbl = "None" THEN {}
   ELSE {[avail |-> TRUE, idx |-> s, scored |-> sc] :
           s \in Ranked(Len(rws), k),
           sc \in BOOLEAN})

\* lres is not None and not lres.empty  (variant: lres is not None)
UseNativeIfNotNone(lres) == lres.avail
UseNative(lres) == lres.avail /\ lres.idx # <<>>

NoScore == [kind |-> "None", num |-> 0, den |-> 1]
NativeScore == [kind |-> "native", num |-> 0, den |-> 1]

\* the contexts built from the rows of the native result
NativeContexts(rws, lres) ==
  [i \in 1..Len(lres.idx) |->
     [row |-> lres.idx[i], id |-> rws[lres.idx[i]].id,
      score |-> IF lres.scored THEN NativeScore ELSE NoScore]]

\* the contexts built from top_idx on the fallback path
ScanContexts(rws, sims, top_idx) ==
  [i \in 1..Len(top_idx) |->
     [row |-> top_idx[i], id |-> rws[top_idx[i]].id,
      score |-> sims[top_idx[i]]]]

\* what the process has configured and what ChatCompletion.create does
\* when called: no API key, a key and a reply, a key and an exception
GenModes == {[key |-> FALSE, genOk |-> FALSE], [key |-> TRUE, genOk |-> TRUE],
             [key |-> TRUE, genOk |-> FALSE]}

\* _generate_answer: without an API key the contexts are returned; with one
\* the prompt is formatted (c['score']:.4f raises on a None score) and
\* ChatCompletion.create is called; its exception is not caught.
\* gen records what the completion call did: "none" when it was not made.
Generate(contexts, genOk) ==
  IF \E i \in 1..Len(contexts) : contexts[i].score.kind = "None"
    THEN [outcome |-> "raised", at |-> "prompt", payload |-> <<>>,
          gen |-> "none"]
  ELSE IF genOk
    THEN [outcome |-> "answer", at |-> "", payload |-> contexts,
          gen |-> "ok"]
  ELSE [outcome |-> "raised", at |-> "generate", payload |-> <<>>,
        gen |-> "failed"]
\* (variant: the key is not looked at)
GenerateAlways(contexts, key, genOk) == Generate(contexts, genOk)
_generate_answer(contexts, key, genOk) ==
  IF ~key
    THEN [outcome |-> "top_k", at |-> "", payload |-> contexts,
          gen |-> "none"]
  ELSE Generate(contexts, genOk)

\* df["embedding"].tolist() of fetch_all_embeddings
RECURSIVE Embeddings(_)
Embeddings(rws) ==
  IF rws = <<>> THEN <<>> ELSE <<Head(rws).embedding>> \o Embeddings(Tail(rws))

\* np.array(embeddings) @ q_norm needs every row to have the query's length
ShapesAgree(rws, qv) == \A i \in 1..Len(rws) : Len(rws[i].embedding) = Len(qv)

\* RAGEngine.query after the query vector is known.  order is what argsort
\* returns on the fallback path.  scanned: fetch_all_embeddings was called.
QueryBody(tbl, rws, k, qv, lres, order, key, genOk) ==
  LET base == [k |-> k, lres |-> lres, key |-> key, embedded |-> TRUE]
      none == [sims |-> <<>>, contexts |-> <<>>, payload |-> <<>>,
               gen |-> "none"]
  IN IF UseNative(lres)
       THEN LET contexts == NativeContexts(rws, lres)
            IN base @@ [scanned |-> FALSE, sims |-> <<>>,
                        contexts |-> contexts]
                    @@ _generate_answer(contexts, key, genOk)
     ELSE IF tbl = "None"
       THEN base @@ [scanned |-> TRUE, outcome |-> "raised", at |-> "scan"]
                 @@ none
     ELSE IF Len(rws) = 0
       THEN base @@ [scanned |-> TRUE, outcome |-> "top_k", at |-> ""]
                 @@ none
     ELSE IF ~ShapesAgree(rws, qv)
       THEN base @@ [scanned |-> TRUE, outcome |-> "raised", at |-> "scan"]
                 @@ none
     ELSE LET sims     == _cosine_similarity_matrix(Embeddings(rws), qv)
              contexts == ScanContexts(rws, sims, Top(order, k))
          IN base @@ [scanned |-> TRUE, sims |-> sims, contexts |-> contexts]
                  @@ _generate_answer(contexts, key, genOk)

\* the orders argsort can return for this table and query vector
Orders(rws, qv) ==
  IF Len(rws) > 0 /\ ShapesAgree(rws, qv)
    THEN ArgsortDesc(_cosine_similarity_matrix(Embeddings(rws), qv))
    ELSE {<<>>}

(* ------------------------------ state --------------------------------- *)

VARIABLES
  db_tables,   \* TRUE iff table_name is in self.db.table_names()
  table,       \* self.table: "None" or "open"
  rows,        \* the rows of the LanceDB table, in insertion order
  pc,          \* position of each thread in ingest_listings
  file,        \* the listings the run loaded
  existing,    \* existing_ids, the snapshot of the run
  docs,        \* the docs list of the run
  rows0,       \* history: the table rows when the run was called
  rerun,       \* history: the run repeats the completed run just before it
  failed,      \* history: an embed_fn call of the run delivered no list
  q            \* <<>> or <<the outcome of the query call in progress>>

vars == <<db_tables, table, rows, pc, file, existing, docs, rows0, rerun,
          failed, q>>

\* a manager just constructed on a database without the table
Init ==
  /\ db_tables = FALSE
  /\ table = "None"
  /\ rows = <<>>
  /\ pc = [r \in Runs |-> "idle"]
  /\ file = [r \in Runs |-> <<>>]
  /\ existing = [r \in Runs |-> {}]
  /\ docs = [r \in Runs |-> <<>>]
  /\ rows0 = [r \in Runs |-> <<>>]
  /\ rerun = [r \in Runs |-> FALSE]
  /\ failed = [r \in Runs |-> FALSE]
  /\ q = <<>>

\* no call is in progress
Quiet == q = <<>> /\ \A r \in Runs : pc[r] = "idle"

(* ----------------------- RealEstateDBManager -------------------------- *)

\* create_table(force): drop when forced, then create or open.  The caller
\* makes this call between its other calls.
create_table(force) ==
  /\ Quiet
  /\ table' = "open"
  /\ db_tables' = TRUE
  /\ rows' = IF force \/ ~db_tables THEN <<>> ELSE rows
  /\ UNCHANGED <<pc, file, existing, docs, rows0, rerun, failed, q>>

\* ingest_listings up to the loop: get_or_create_table, the snapshot of the
\* stored ids, json.load of the input file
Load(r, listings, again) ==
  /\ q = <<>>
  /\ Len(rows) + (IF again THEN 0 ELSE Len(listings)) <= MaxRows
  /\ table' = "open"
  /\ db_tables' = TRUE
  /\ existing' = [existing EXCEPT ![r] = ExistingIds(rows)]
  /\ file' = [file EXCEPT ![r] = listings]
  /\ docs' = [docs EXCEPT ![r] = <<>>]
  /\ rows0' = [rows0 EXCEPT ![r] = rows]
  /\ rerun' = [rerun EXCEPT ![r] = again]
  /\ failed' = [failed EXCEPT ![r] = FALSE]
  /\ pc' = [pc EXCEPT ![r] = "loaded"]
  /\ UNCHANGED <<rows, q>>

\* a call of ingest_listings
IngestLoad(r, listings) ==
  /\ pc[r] = "idle"
  /\ Load(r, listings, FALSE)

\* the for loop: builds docs, or the exception leaves ingest_listings
IngestEmbed(r) ==
  /\ pc[r] = "loaded"
  /\ \E res \in BuildDocs(file[r], existing[r], 1, <<>>, FALSE) :
       /\ docs' = [docs EXCEPT ![r] = res.docs]
       /\ failed' = [failed EXCEPT ![r] = res.failed]
       /\ pc' = [pc EXCEPT ![r] = IF res.status = "ok" THEN "embedded"
                                  ELSE "raised"]
  /\ UNCHANGED <<db_tables, table, rows, file, existing, rows0, rerun, q>>

\* if docs: table.add(docs)
IngestAdd(r) ==
  /\ pc[r] = "embedded"
  /\ rows' = IF docs[r] # <<>> THEN TableAdd(rows, docs[r]) ELSE rows
  /\ pc' = [pc EXCEPT ![r] = "done"]
  /\ UNCHANGED <<db_tables, table, file, existing, docs, rows0, rerun,
                 failed, q>>

\* control is back in the caller (normally or with the exception)
IngestReturn(r) ==
  /\ pc[r] \in {"done", "raised"}
  /\ pc' = [pc EXCEPT ![r] = "idle"]
  /\ file' = [file EXCEPT ![r] = <<>>]
  /\ existing' = [existing EXCEPT ![r] = {}]
  /\ docs' = [docs EXCEPT ![r] = <<>>]
  /\ rows0' = [rows0 EXCEPT ![r] = <<>>]
  /\ rerun' = [rerun EXCEPT ![r] = FALSE]
  /\ failed' = [failed EXCEPT ![r] = FALSE]
  /\ UNCHANGED <<db_tables, table, rows, q>>

\* the caller's next call, after a completed run, is ingest_listings on the
\* same input file
IngestAgain(r) ==
  /\ pc[r] = "done"
  /\ \A o \in Runs \ {r} : pc[o] = "idle"
  /\ Load(r, file[r], TRUE)

(* ------------------------------ RAGEngine ----------------------------- *)

\* query(user_query, k) when embed_fn raises: the exception leaves query
QueryEmbedFails ==
  /\ Quiet
  /\ \E k \in 0..MaxK, gen \in GenModes :
       q' = << [k |-> k, lres |-> Unavailable, key |-> gen.key,
                embedded |-> FALSE, scanned |-> FALSE, sims |-> <<>>,
                contexts |-> <<>>, outcome |-> "raised", at |-> "embed",
                payload |-> <<>>, gen |-> "none"] >>
  /\ UNCHANGED <<db_tables, table, rows, pc, file, existing, docs, rows0,
                 rerun, failed>>

\* query(user_query, k) answered from a non-empty native result
QueryNative ==
  /\ Quiet
  /\ \E k \in 0..MaxK, qv \in QueryVectors, gen \in GenModes :
       \E lres \in search_with_lancedb(table, rows, k) :
         /\ UseNative(lres)
         /\ q' = << QueryBody(table, rows, k, qv, lres, <<>>, gen.key,
                              gen.genOk) >>
  /\ UNCHANGED <<db_tables, table, rows, pc, file, existing, docs, rows0,
                 rerun, failed>>

\* query(user_query, k) when the native search gave None or no rows: the
\* fallback, where argsort returns order
QueryScan ==
  /\ Quiet
  /\ \E qv \in QueryVectors :
       \E order \in Orders(rows, qv) :
         \E k \in 0..MaxK, gen \in GenModes :
           \E lres \in search_with_lancedb(table, rows, k) :
             /\ ~UseNative(lres)
             /\ q' = << QueryBody(table, rows, k, qv, lres, order, gen.key,
                                  gen.genOk) >>
  /\ UNCHANGED <<db_tables, table, rows, pc, file, existing, docs, rows0,
                 rerun, failed>>

\* the caller has the result (or the exception)
QueryReturn ==
  /\ q # <<>>
  /\ q' = <<>>
  /\ UNCHANGED <<db_tables, table, rows, pc, file, existing, docs, rows0,
                 rerun, failed>>

(* --------------------------- specifications --------------------------- *)

\* one caller, one call at a time (run_pipeline.py)
Next ==
  \/ \E force \in BOOLEAN : create_table(force)
  \/ \E f \in Files : IngestLoad(1, f)
  \/ IngestEmbed(1)
  \/ IngestAdd(1)
  \/ IngestReturn(1)
  \/ IngestAgain(1)
  \/ QueryEmbedFails
  \/ QueryNative
  \/ QueryScan
  \/ QueryReturn

Spec == Init /\ [][Next]_vars

\* two threads share the manager and call ingest_listings concurrently
ConcNext ==
  \/ \E force \in BOOLEAN : create_table(force)
  \/ \E r \in Runs, f \in Files : IngestLoad(r, f)
  \/ \E r \in Runs : IngestEmbed(r)
  \/ \E r \in Runs : IngestAdd(r)
  \/ \E r \in Runs : IngestReturn(r)

ConcSpec == Init /\ [][ConcNext]_vars

(* ------------------------------ properties ---------------------------- *)

Count(seq, id) == Cardinality({i \in 1..Len(seq) : seq[i].id = id})
FileIds(listings) ==
  {compute_listing_id(make_full_text(listings[i])) : i \in 1..Len(listings)}
OccursOnce(listings, id) ==
  Cardinality({i \in 1..Len(listings) :
                 compute_listing_id(make_full_text(listings[i])) = id}) = 1

\* C1: after any sequence of create_table and ingest_listings calls by one
\* caller, no two stored rows share an id (a record is skipped when its id
\* is stored already or was produced earlier in the same run).
C1_NoTwoRowsShareAnId ==
  \A i, j \in 1..Len(rows) : i # j => rows[i].id # rows[j].id

C3_RacingRunsNoDuplicate ==
  \A r, o \in Runs : \A id \in FileIds(file[r]) \cap FileIds(file[o]) :
    ( /\ r # o
      /\ pc[r] = "done" /\ pc[o] = "done"
      /\ id \notin existing[r] /\ id \notin existing[o]
      /\ OccursOnce(file[r], id) /\ OccursOnce(file[o], id) )
    => Count(rows, id) <= 1

\* C4: every stored embedding has the one length D of the table: a vector
\* of another length that embed_fn returns during ingest_listings never
\* appears among the rows.
C4_OneEmbeddingLength ==
  \A i, j \in 1..Len(rows) :
    Len(rows[i].embedding) = Len(rows[j].embedding)

\* C5: if embed_fn fails for a record that is not a duplicate, the run
\* aborts with the failure and writes nothing: the table holds the rows it
\* held before the run, also when earlier records of the run were embedded.
C5_EmbedFailureAbortsRun ==
  \A r \in Runs : failed[r] => pc[r] = "raised" /\ rows = rows0[r]

C5_Witness ==
  failed[1] /\ pc[1] = "raised" /\ docs[1] # <<>> /\ rows0[1] # <<>>

\* the retrieval part of the query call in progress has produced contexts
Retrieved(r) == r.outcome # "raised" \/ r.at \in {"prompt", "generate"}

\* C6: on the brute-force path the contexts are in descending order of
\* similarity, and rows of equal similarity are in table (scan) order.
C6_RankedWithStableTies ==
  q # <<>> =>
    LET r == q[1] IN
    (r.scanned /\ Retrieved(r)) =>
      \A i, j \in 1..Len(r.contexts) : i < j =>
        \/ SimLess(r.contexts[j].score, r.contexts[i].score)
        \/ /\ SimEq(r.contexts[i].score, r.contexts[j].score)
           /\ r.contexts[i].row < r.contexts[j].row

\* the contexts are a top-k of the table by similarity
IsTopK(r) ==
  LET c == r.contexts
      chosen == {c[i].row : i \in 1..Len(c)}
  IN /\ Len(c) = Min(r.k, Len(rows))
     /\ Cardinality(chosen) = Len(c)
     /\ Len(r.sims) = Len(rows)
     /\ \A i \in 1..Len(c) :
          /\ c[i].row \in 1..Len(rows)
          /\ c[i].id = rows[c[i].row].id
          /\ c[i].score = r.sims[c[i].row]
          /\ \A j \in (1..Len(rows)) \ chosen :
               ~SimLess(c[i].score, r.sims[j])
     /\ \A i, j \in 1..Len(c) : i < j => ~SimLess(c[i].score, c[j].score)

\* C7: query scans the whole table exactly when the native search returned
\* None or no rows; a non-empty native result becomes the contexts row for
\* row, in its order, with no scan; and when the native search is
\* unavailable the contexts are a correct top-k by similarity.
C7_FallbackExactlyWithoutNative ==
  q # <<>> =>
    LET r == q[1] IN
    r.embedded =>
      /\ r.scanned <=> (~r.lres.avail \/ r.lres.idx = <<>>)
      /\ (r.lres.avail /\ r.lres.idx # <<>>) =>
           /\ Len(r.contexts) = Len(r.lres.idx)
           /\ \A i \in 1..Len(r.contexts) :
                /\ r.contexts[i].row = r.lres.idx[i]
                /\ r.contexts[i].id = rows[r.lres.idx[i]].id
      /\ (~r.lres.avail /\ Retrieved(r)) => IsTopK(r)

C7_Witness ==
  /\ q # <<>>
  /\ ~q[1].lres.avail
  /\ q[1].outcome = "top_k"
  /\ Len(q[1].contexts) = 2
  /\ Len(rows) = 3
  /\ SimLess(q[1].contexts[2].score, q[1].contexts[1].score)
  /\ q[1].contexts[1].row > q[1].contexts[2].row

\* C8: query returns at most k contexts and never more than the table has
\* rows, on the native and on the brute-force path; on an empty table it
\* returns an empty context list and does not raise.
C8_AtMostKContexts ==
  q # <<>> =>
    LET r == q[1] IN
    /\ Len(r.contexts) <= r.k
    /\ Len(r.contexts) <= Len(rows)
    /\ Len(r.payload) <= r.k
    /\ Len(r.payload) <= Len(rows)
    /\ (r.embedded /\ table = "open" /\ rows = <<>>) =>
         r.outcome = "top_k" /\ r.payload = <<>>

C8_Witness ==
  /\ q # <<>>
  /\ q[1].scanned
  /\ q[1].outcome # "raised"
  /\ q[1].k >= 1
  /\ Len(q[1].payload) = q[1].k
  /\ Len(rows) > q[1].k

\* C9: without an API key query returns {query, top_k: contexts} with at
\* most k contexts and ChatCompletion.create is not called; with a key and
\* a completion that succeeds the result is {answer, retrieved: contexts}.
C9_NoKeyNoGeneration ==
  q # <<>> =>
    LET r == q[1] IN
    /\ ~r.key =>
         /\ r.gen = "none"
         /\ r.outcome # "raised" =>
              /\ r.outcome = "top_k"
              /\ r.payload = r.contexts
              /\ Len(r.payload) <= r.k
    /\ r.gen = "ok" =>
         r.key /\ r.outcome = "answer" /\ r.payload = r.contexts

C9_Witness ==
  /\ q # <<>>
  /\ ~q[1].key
  /\ q[1].outcome = "top_k"
  /\ Len(q[1].payload) >= 1
  /\ ~q[1].scanned

\* C10: if the completion call fails after retrieval, query returns a result
\* holding the retrieved contexts (with an error marker); they are not lost.
C10_GenerationFailureKeepsContexts ==
  q # <<>> =>
    (q[1].gen = "failed" =>
       q[1].outcome # "raised" /\ q[1].payload = q[1].contexts)

====
